---- MODULE Spec2Model ----
(***************************************************************************)
(* A model of aerosandbox/dynamics/point_mass/common_point_mass.py: the    *)
(* abstract point-mass dynamics class _DynamicsPointMassBaseClass, its     *)
(* state container (state / unpack_state / pack_state / _set_state /       *)
(* get_new_instance_with_state), its indexer (__getitem__ / __len__), its  *)
(* force accumulator and its trajectory constraint binder                  *)
(* (constrain_derivatives).                                                *)
(*                                                                         *)
(* A Python value is a record [k, e]: k is its kind, e its elements.       *)
(*   "scalar": a float, e = <<x>>                                          *)
(*   "vec"   : a 1-D array, e = its elements                               *)
(*   "mp"    : a MassProperties object, e = <<mass>>                       *)
(*   "none"  : None                                                        *)
(*   "absent": the attribute is not in the instance's __dict__             *)
(* An instance is a record [variant, attrs]: attrs maps every attribute    *)
(* name of the model to a value.  An ordered Dict is a sequence of         *)
(* <<key, value>> pairs, so that key order is part of equality.            *)
(***************************************************************************)
EXTENDS Integers, Sequences, FiniteSets, TLC

VARIABLES dyn, res, nops, gravs

vars == <<dyn, res, nops, gravs>>

(* ------------------------------- bounds -------------------------------- *)

\* Longest vector a state variable or a force takes.
MaxLen == 2

\* Number of operations that change the instance in one behaviour.
MaxOps == 2

(* ------------------------------- values -------------------------------- *)

Scalar(x) == [k |-> "scalar", e |-> <<x>>]

Vec(s) == [k |-> "vec", e |-> s]

MassProps(m) == [k |-> "mp", e |-> <<m>>]

NoneVal == [k |-> "none", e |-> <<>>]

Absent == [k |-> "absent", e |-> <<>>]

\* The vector <<b+1, ..., b+n>>: its elements differ, so that an element
\* tells its position.
Ramp(n, b) == Vec([i \in 1..n |-> b + i])

ScalarVals == {Scalar(5)}

VecVals == {Ramp(n, 0) : n \in 0..MaxLen}

StateVals == ScalarVals \cup VecVals

Masses == {2, 3}

(* ------------------------------ variants ------------------------------- *)

Variants == {"Horizontal1D", "Vertical1D"}

StateKeys(v) ==
    IF v = "Horizontal1D" THEN <<"x_e", "u_e">> ELSE <<"z_e", "w_e">>

ControlKeys(v) ==
    IF v = "Horizontal1D" THEN <<"Fx_e">> ELSE <<"Fz_e">>

\* The constructor's parameters after self.
InitArgs(v) == <<"mass_props">> \o StateKeys(v)

Range(s) == {s[i] : i \in DOMAIN s}

AttrNames ==
    UNION {Range(InitArgs(v)) \cup Range(ControlKeys(v)) : v \in Variants}
        \cup {"stray"}

(* ---------------------------- ordered dicts ---------------------------- *)

Keys(m) == [i \in DOMAIN m |-> m[i][1]]

Values(m) == [i \in DOMAIN m |-> m[i][2]]

HasKey(m, key) == \E i \in DOMAIN m : m[i][1] = key

Get(m, key) == m[CHOOSE i \in DOMAIN m : m[i][1] = key][2]

(* ------------------------------ outcomes ------------------------------- *)

Ok(v) == [ok |-> TRUE, val |-> v]

\* A raised exception: its class, the variable its message names ("" when
\* none) and the exception it was raised from while handling (its
\* __context__; NoErr when none).
NoErr == [class |-> "", names |-> "", context |-> <<>>]

Raise(class, names, context) ==
    [ok |-> FALSE, err |-> [class |-> class, names |-> names, context |-> context]]

(* --------------------------- state container --------------------------- *)

\* The constructor of a concrete variant: each constructor argument is
\* assigned to the attribute of its name, each control variable is 0.
New(v, args) ==
    [variant |-> v,
     attrs |-> [a \in AttrNames |->
                  IF a \in Range(InitArgs(v)) THEN args[a]
                  ELSE IF a \in Range(ControlKeys(v)) THEN Scalar(0)
                  ELSE Absent]]

\* The state property: the state variables, in the order of the schema.
state(D) ==
    [i \in DOMAIN StateKeys(D.variant) |->
        <<StateKeys(D.variant)[i], D.attrs[StateKeys(D.variant)[i]]>>]

control_variables(D) ==
    [i \in DOMAIN ControlKeys(D.variant) |->
        <<ControlKeys(D.variant)[i], D.attrs[ControlKeys(D.variant)[i]]>>]

\* An argument is [t |-> "none"], [t |-> "map", m |-> ordered dict] or
\* [t |-> "seq", s |-> sequence of values].
ArgNone == [t |-> "none"]

ArgMap(m) == [t |-> "map", m |-> m]

ArgSeq(s) == [t |-> "seq", s |-> s]

\* unpack_state with the values taken in reverse.
unpack_state_reversed(D, a) ==
    LET m == IF a.t = "none" THEN state(D) ELSE a.m
    IN  [i \in DOMAIN m |-> m[Len(m) + 1 - i][2]]

unpack_state(D, a) ==
    Values(IF a.t = "none" THEN state(D) ELSE a.m)

\* pack_state without the length check: zip stops at the shorter one.
pack_state_unchecked(D, a) ==
    IF a.t = "none" THEN Ok(state(D))
    ELSE Ok([i \in 1..(IF Len(a.s) < Len(Keys(state(D))) THEN Len(a.s) ELSE Len(Keys(state(D)))) |->
                <<Keys(state(D))[i], a.s[i]>>])

pack_state(D, a) ==
    IF a.t = "none" THEN Ok(state(D))
    ELSE IF Len(Keys(state(D))) # Len(a.s) THEN Raise("ValueError", "", NoErr)
    ELSE Ok([i \in DOMAIN Keys(state(D)) |-> <<Keys(state(D))[i], a.s[i]>>])

\* setattr(self, key, value) for each item of the dict m, in its order.
RECURSIVE SetAttrs(_, _)
SetAttrs(D, m) ==
    IF m = <<>> THEN D
    ELSE SetAttrs([D EXCEPT !.attrs[Head(m)[1]] = Head(m)[2]], Tail(m))

\* _set_state putting the control variables back to zero once the state is
\* set.
_set_state_reset(D, a) ==
    LET p == IF a.t = "none" THEN Ok(<<>>)
             ELSE IF a.t = "map" THEN Ok(a.m)
             ELSE pack_state(D, a)
        zeros == [i \in DOMAIN ControlKeys(D.variant) |->
                    <<ControlKeys(D.variant)[i], Scalar(0)>>]
    IN  IF p.ok
        THEN [ok |-> TRUE, inst |-> SetAttrs(SetAttrs(D, p.val), zeros), err |-> NoErr]
        ELSE [ok |-> FALSE, inst |-> D,
              err |-> [p.err EXCEPT !.context =
                         [class |-> "AttributeError", names |-> "", context |-> <<>>]]]

\* _set_state works in place: the outcome holds the instance as the call
\* leaves it (inst), also when it raises.  A sequence has no keys():
\* AttributeError, and the sequence is packed first, inside the handler.
RECURSIVE _set_state(_, _)
_set_state(D, a) ==
    IF a.t = "none" THEN [ok |-> TRUE, inst |-> SetAttrs(D, <<>>), err |-> NoErr]
    ELSE IF a.t = "map" THEN [ok |-> TRUE, inst |-> SetAttrs(D, a.m), err |-> NoErr]
    ELSE LET p == pack_state(D, a)
         IN  IF p.ok THEN _set_state(D, ArgMap(p.val))
             ELSE [ok |-> FALSE, inst |-> D,
                   err |-> [p.err EXCEPT !.context =
                              [class |-> "AttributeError", names |-> "", context |-> <<>>]]]

\* get_new_instance_with_state from a copy of the whole instance.
get_new_instance_with_state_copy(D, a) == _set_state(D, a)

\* get_new_instance_with_state from the constructor's defaults.
get_new_instance_with_state_defaults(D, a) ==
    _set_state(New(D.variant,
                   [k \in Range(InitArgs(D.variant)) |->
                       IF k = "mass_props" THEN MassProps(1) ELSE Scalar(0)]), a)

get_new_instance_with_state(D, a) ==
    LET init_args == InitArgs(D.variant)
        new_dyn == New(D.variant, [k \in Range(init_args) |-> D.attrs[k]])
    IN  _set_state(new_dyn, a)

(* ------------------------------- indexer ------------------------------- *)

\* aerosandbox.numpy.length: len(array), and 1 for what has no len().
np_length(v) == IF v.k = "vec" THEN Len(v.e) ELSE 1

\* __len__'s loop taking the length of the last vectorized variable.
RECURSIVE LenLoop_last(_, _)
LenLoop_last(vals, length) ==
    IF vals = <<>> THEN Ok(length)
    ELSE LET n == np_length(Head(vals))
         IN  IF n = 1 THEN LenLoop_last(Tail(vals), length)
             ELSE LenLoop_last(Tail(vals), n)

RECURSIVE LenLoop(_, _)
LenLoop(vals, length) ==
    IF vals = <<>> THEN Ok(length)
    ELSE LET n == np_length(Head(vals))
         IN  IF n = 1 THEN LenLoop(Tail(vals), length)
             ELSE IF length = 1 THEN LenLoop(Tail(vals), n)
             ELSE IF length = n THEN LenLoop(Tail(vals), length)
             ELSE Raise("ValueError", "", NoErr)

__len__(D) == LenLoop(Values(state(D)), 1)

\* a[index] on an array (negative indices count from the end), the
\* attribute itself when it is not subscriptable.
get_item_of_attribute(a, index) ==
    IF a.k # "vec" THEN Ok(a)
    ELSE IF index >= 0 /\ index < Len(a.e) THEN Ok(Scalar(a.e[index + 1]))
    ELSE IF index < 0 /\ index >= -Len(a.e) THEN Ok(Scalar(a.e[Len(a.e) + index + 1]))
    ELSE Raise("IndexError", "", [class |-> "IndexError", names |-> "", context |-> <<>>])

__getitem__(D, index) ==
    LET new_instance == get_new_instance_with_state(D, ArgNone).inst
        dict == {k \in AttrNames : new_instance.attrs[k] # Absent}
        item(k) == get_item_of_attribute(new_instance.attrs[k], index)
    IN  IF \E k \in dict : ~item(k).ok
        THEN item(CHOOSE bad \in dict : ~item(bad).ok)
        ELSE Ok([new_instance EXCEPT !.attrs =
                    [k \in AttrNames |-> IF k \in dict THEN item(k).val ELSE Absent]])

(* ------------------------ calls and their objects ---------------------- *)

\* get_new_instance_with_state setting the state on self and returning it.
call_get_new_instance_with_state_inplace(D, a) ==
    [self |-> _set_state(D, a).inst, out |-> _set_state(D, a), aliased |-> TRUE]

\* A call of get_new_instance_with_state as it leaves the objects: self is
\* the instance it was called on, after the call; out is what the caller
\* gets; aliased says whether the instance returned is self.  The method
\* reads self with getattr, builds new_dyn with the constructor, and
\* assigns to new_dyn only.
call_get_new_instance_with_state(D, a) ==
    [self |-> D, out |-> get_new_instance_with_state(D, a), aliased |-> FALSE]

\* A call of D[index]: the setattr loop runs on the object
\* get_new_instance_with_state() has returned.
call_getitem(D, index) ==
    LET c == call_get_new_instance_with_state(D, ArgNone)
        out == __getitem__(D, index)
    IN  [self |-> IF c.aliased /\ out.ok THEN out.val ELSE c.self,
         out |-> out, aliased |-> c.aliased]

(* -------------------------- force accumulator -------------------------- *)

Frames == {"geometry", "body", "wind", "stability", "earth"}

Neg(a) == [a EXCEPT !.e = [i \in DOMAIN a.e |-> 0 - a.e[i]]]

\* a + b with numpy's broadcasting: a scalar or a one-element array
\* stretches, arrays of two other lengths do not add.
AddVals(a, b) ==
    IF a.k = "scalar" /\ b.k = "scalar" THEN Ok(Scalar(a.e[1] + b.e[1]))
    ELSE IF Len(a.e) = Len(b.e) THEN Ok(Vec([i \in DOMAIN a.e |-> a.e[i] + b.e[i]]))
    ELSE IF Len(a.e) = 1 THEN Ok(Vec([i \in DOMAIN b.e |-> a.e[1] + b.e[i]]))
    ELSE IF Len(b.e) = 1 THEN Ok(Vec([i \in DOMAIN a.e |-> a.e[i] + b.e[1]]))
    ELSE Raise("ValueError", "", NoErr)

\* convert_axes reversing x and z on the way out of geometry axes only.
convert_axes_oneway(x_from, y_from, z_from, from_axes, to_axes) ==
    IF from_axes = "geometry" /\ to_axes # "geometry"
    THEN <<Neg(x_from), y_from, Neg(z_from)>>
    ELSE <<x_from, y_from, z_from>>

\* The 1-D variants fly level with no incidence: body, stability, wind and
\* earth axes are aligned, and geometry axes point aft and up (x and z
\* reversed).
convert_axes(x_from, y_from, z_from, from_axes, to_axes) ==
    IF (from_axes = "geometry") # (to_axes = "geometry")
    THEN <<Neg(x_from), y_from, Neg(z_from)>>
    ELSE <<x_from, y_from, z_from>>

\* add_force works in place: the outcome holds the instance as the call
\* leaves it.  The force is turned to earth axes and its component along
\* the variant's axis is added to the running total.
add_force(D, Fx, Fy, Fz, axes) ==
    LET F_e == convert_axes(Fx, Fy, Fz, axes, "earth")
        key == ControlKeys(D.variant)[1]
        sum == AddVals(D.attrs[key], IF key = "Fx_e" THEN F_e[1] ELSE F_e[3])
    IN  IF sum.ok
        THEN [ok |-> TRUE, inst |-> [D EXCEPT !.attrs[key] = sum.val], err |-> NoErr]
        ELSE [ok |-> FALSE, inst |-> D, err |-> sum.err]

\* add_gravity_force leaving the mass out and the axes at add_force's default.
add_gravity_force_weightless(D, g) ==
    add_force(D, Scalar(0), Scalar(0), Scalar(g), "wind")

add_gravity_force(D, g) ==
    add_force(D, Scalar(0), Scalar(0), Scalar(D.attrs["mass_props"].e[1] * g), "earth")

(* ---------------------- trajectory constraint binder ------------------- *)

\* The handlers letting the original error through.
ConstrainError_reraise(name, original) ==
    [class |-> original, names |-> "", context |-> <<>>, quotes |-> FALSE]

\* The error constrain_derivatives raises from its handlers: a ValueError
\* whose message names the variable; raised while the original error is
\* handled, which stays its __context__.  Only the message of the second
\* handler quotes the original error.
ConstrainError(name, original) ==
    [class |-> "ValueError", names |-> name,
     context |-> [class |-> original, names |-> "", context |-> <<>>],
     quotes |-> (original # "KeyError")]

\* The loop of constrain_derivatives over the selected names.  env holds
\* the state_derivatives() dict, time, method and the behaviour of the
\* optimization context: its fault.at-th constrain_derivative call raises an
\* exception of class fault.class (0: none does).  bound are the constraints
\* the context has accepted, issued counts the calls made to it.
RECURSIVE ConstrainLoop(_, _, _, _, _)
ConstrainLoop(D, which, env, bound, issued) ==
    IF which = <<>> THEN [ok |-> TRUE, bound |-> bound, issued |-> issued]
    ELSE LET state_var_name == Head(which)
         IN  IF ~HasKey(env.state_derivatives, state_var_name)
             THEN [ok |-> FALSE, bound |-> bound, issued |-> issued,
                   err |-> [class |-> "KeyError", names |-> state_var_name,
                            context |-> <<>>, quotes |-> FALSE]]
             ELSE IF Get(env.state_derivatives, state_var_name) = NoneVal
             THEN ConstrainLoop(D, Tail(which), env, bound, issued)
             ELSE IF ~HasKey(state(D), state_var_name)
             THEN [ok |-> FALSE, bound |-> bound, issued |-> issued,
                   err |-> ConstrainError(state_var_name, "KeyError")]
             ELSE IF env.fault.at = issued + 1
             THEN [ok |-> FALSE, bound |-> bound, issued |-> issued + 1,
                   err |-> ConstrainError(state_var_name, env.fault.class)]
             ELSE ConstrainLoop(D, Tail(which), env,
                      Append(bound,
                             [derivative |-> Get(env.state_derivatives, state_var_name),
                              variable |-> Get(state(D), state_var_name),
                              with_respect_to |-> env.time,
                              method |-> env.method,
                              name |-> state_var_name]),
                      issued + 1)

WhichAll == [t |-> "all"]

WhichList(s) == [t |-> "list", s |-> s]

\* The selection taken as "all" whatever is given.
Selection_all(D, which) == Keys(state(D))

\* The names constrain_derivatives goes through.
Selection(D, which) == IF which.t = "all" THEN Keys(state(D)) ELSE which.s

constrain_derivatives(D, env, which) ==
    ConstrainLoop(D, Selection(D, which), env, <<>>, 0)

(* ------------------------------- machine ------------------------------- *)

InitArgVals(v) ==
    {f \in [Range(InitArgs(v)) -> StateVals \cup {MassProps(m) : m \in Masses}] :
        /\ f["mass_props"].k = "mp"
        /\ \A key \in Range(StateKeys(v)) : f[key] \in StateVals}

Instances == UNION {{New(v, args) : args \in InitArgVals(v)} : v \in Variants}

Idle == [op |-> "idle"]

\* gravs is the history of the instance while add_gravity_force is all that
\* was called on it: the g of each call.  Mixed once anything else changed
\* the instance.
Mixed == <<-1>>

Init ==
    /\ dyn \in Instances
    /\ res = Idle
    /\ nops = 0
    /\ gravs = <<>>

\* The caller drops the result of the last call.
Discard ==
    /\ res # Idle
    /\ res' = Idle
    /\ UNCHANGED <<dyn, nops, gravs>>

Len_ ==
    /\ res = Idle
    /\ res' = [op |-> "len", pre |-> dyn, out |-> __len__(dyn)]
    /\ UNCHANGED <<dyn, nops, gravs>>

Indices == -1 .. MaxLen + 1

GetItem ==
    /\ res = Idle
    /\ \E index \in Indices :
         LET c == call_getitem(dyn, index)
         IN  /\ dyn' = c.self
             /\ res' = [op |-> "getitem", index |-> index, pre |-> dyn,
                        aliased |-> c.aliased, out |-> c.out]
    /\ UNCHANGED <<nops, gravs>>

(* Inputs of the state container. *)

\* The names a caller's dict may hold: the state keys, a control variable
\* and a name outside the schema.
DictKeys(v) == StateKeys(v) \o <<ControlKeys(v)[1], "stray">>

\* The value given for the i-th name: a scalar or a vector.
NewVal(pal, i) == IF pal = "scalar" THEN Scalar(6 + i) ELSE Ramp(MaxLen, 6 + i)

DictOver(v, S, pal) ==
    SelectSeq([i \in DOMAIN DictKeys(v) |-> <<DictKeys(v)[i], NewVal(pal, i)>>],
              LAMBDA p : p[1] \in S)

Reverse(s) == [i \in DOMAIN s |-> s[Len(s) + 1 - i]]

KeySets(v) ==
    {{}, {StateKeys(v)[1]}, {StateKeys(v)[2]}, Range(StateKeys(v)),
     {StateKeys(v)[1], "stray"}, {StateKeys(v)[2], ControlKeys(v)[1]}}

Dicts(v) ==
    {DictOver(v, S, "scalar") : S \in KeySets(v)}
        \cup {DictOver(v, S, "vec") : S \in {{StateKeys(v)[2]}, Range(StateKeys(v))}}
        \cup {Reverse(DictOver(v, Range(StateKeys(v)), "scalar"))}

Seqs ==
    {[i \in 1..n |-> NewVal("scalar", i)] : n \in 0..3}
        \cup {[i \in 1..n |-> NewVal("vec", i)] : n \in 1..2}

NewStates(v) ==
    {ArgNone} \cup {ArgMap(m) : m \in Dicts(v)} \cup {ArgSeq(q) : q \in Seqs}

UnpackState ==
    /\ res = Idle
    /\ \E a \in {ArgNone} \cup {ArgMap(m) : m \in Dicts(dyn.variant)} :
         res' = [op |-> "unpack_state", arg |-> a, pre |-> dyn,
                 src |-> IF a.t = "none" THEN state(dyn) ELSE a.m,
                 out |-> Ok(unpack_state(dyn, a))]
    /\ UNCHANGED <<dyn, nops, gravs>>

PackState ==
    /\ res = Idle
    /\ \E a \in {ArgNone} \cup {ArgSeq(q) : q \in Seqs} :
         res' = [op |-> "pack_state", arg |-> a, pre |-> dyn, chained |-> FALSE, src |-> <<>>,
                 out |-> pack_state(dyn, a)]
    /\ UNCHANGED <<dyn, nops, gravs>>

\* pack_state(unpack_state(m)): the sequence just unpacked is packed again.
PackUnpacked ==
    /\ res # Idle
    /\ res.op = "unpack_state"
    /\ res' = [op |-> "pack_state", arg |-> ArgSeq(res.out.val), pre |-> dyn, chained |-> TRUE,
               src |-> res.src, out |-> pack_state(dyn, ArgSeq(res.out.val))]
    /\ UNCHANGED <<dyn, nops, gravs>>

SetState ==
    /\ res = Idle
    /\ nops < MaxOps
    /\ \E a \in NewStates(dyn.variant) :
         LET r == _set_state(dyn, a)
         IN  /\ dyn' = r.inst
             /\ res' = [op |-> "_set_state", arg |-> a, pre |-> dyn,
                        out |-> [ok |-> r.ok, err |-> r.err]]
    /\ nops' = nops + 1
    /\ gravs' = Mixed

GetNewInstanceWithState ==
    /\ res = Idle
    /\ \E a \in NewStates(dyn.variant) :
         LET c == call_get_new_instance_with_state(dyn, a)
         IN  /\ dyn' = c.self
             /\ res' = [op |-> "get_new_instance_with_state", arg |-> a, pre |-> dyn,
                        aliased |-> c.aliased, out |-> c.out]
    /\ UNCHANGED <<nops, gravs>>

\* What the caller sets on an instance it was returned.
ResultStates(v) ==
    {ArgMap(DictOver(v, {StateKeys(v)[1], "stray"}, "scalar")),
     ArgMap(DictOver(v, {StateKeys(v)[2], ControlKeys(v)[1]}, "vec")),
     ArgSeq([i \in 1..2 |-> NewVal("scalar", i)])}

\* _set_state on the instance the last call has returned: new is that
\* instance after the call.
SetStateOnResult ==
    /\ res # Idle
    /\ res.op \in {"get_new_instance_with_state", "getitem"}
    /\ res.out.ok
    /\ \E a \in ResultStates(dyn.variant) :
         LET returned == IF res.op = "getitem" THEN res.out.val ELSE res.out.inst
             r == _set_state(returned, a)
         IN  /\ dyn' = IF res.aliased THEN r.inst ELSE dyn
             /\ res' = [op |-> "_set_state on result", arg |-> a, pre |-> res.pre,
                        was |-> returned, new |-> r.inst]
    /\ UNCHANGED <<nops, gravs>>

ForceVals == {Scalar(0), Scalar(3), Ramp(MaxLen, 0)}

AddForce ==
    /\ res = Idle
    /\ nops < MaxOps
    /\ \E Fx \in ForceVals, Fz \in ForceVals, axes \in Frames :
         LET r == add_force(dyn, Fx, Scalar(0), Fz, axes)
         IN  /\ dyn' = r.inst
             /\ res' = [op |-> "add_force", arg |-> <<Fx, Scalar(0), Fz, axes>>,
                        pre |-> dyn, out |-> [ok |-> r.ok, err |-> r.err]]
    /\ nops' = nops + 1
    /\ gravs' = Mixed

Gs == {1, 10}

AddGravityForce ==
    /\ res = Idle
    /\ nops < MaxOps
    /\ \E g \in Gs :
         LET r == add_gravity_force(dyn, g)
         IN  /\ dyn' = r.inst
             /\ res' = [op |-> "add_gravity_force", arg |-> g, pre |-> dyn,
                        out |-> [ok |-> r.ok, err |-> r.err]]
             /\ gravs' = IF gravs = Mixed THEN Mixed ELSE Append(gravs, g)
    /\ nops' = nops + 1

(* Inputs of the constraint binder. *)

\* A name that is no state variable of variant v.
UnknownName(v) == IF v = "Horizontal1D" THEN "z_e" ELSE "x_e"

Whichs(v) ==
    {WhichAll} \cup
    {WhichList(s) : s \in {<<>>, <<StateKeys(v)[2], StateKeys(v)[1]>>,
                           <<StateKeys(v)[2], StateKeys(v)[2]>>,
                           <<StateKeys(v)[1], UnknownName(v)>>,
                           <<UnknownName(v), StateKeys(v)[1]>>}}

\* state_derivatives() is abstract: a dict with the keys of state, each
\* value a derivative or None.
DerivativeDicts(v) ==
    {[i \in DOMAIN StateKeys(v) |->
        <<StateKeys(v)[i], IF StateKeys(v)[i] \in S THEN Scalar(20 + i) ELSE NoneVal>>] :
     S \in SUBSET Range(StateKeys(v))}

NoFault == [at |-> 0, class |-> ""]

Fault(n, c) == [at |-> n, class |-> c]

\* The context's behaviour and the method asked for.
Contexts ==
    {<<NoFault, "midpoint">>, <<NoFault, "trapezoidal">>,
     <<Fault(1, "KeyError"), "midpoint">>, <<Fault(1, "RuntimeError"), "trapezoidal">>,
     <<Fault(2, "KeyError"), "trapezoidal">>, <<Fault(2, "RuntimeError"), "midpoint">>}

ConstrainDerivatives ==
    /\ res = Idle
    /\ \E which \in Whichs(dyn.variant), d \in DerivativeDicts(dyn.variant), c \in Contexts :
         LET env == [state_derivatives |-> d, fault |-> c[1],
                     time |-> Ramp(MaxLen, 100), method |-> c[2]]
         IN  res' = [op |-> "constrain_derivatives", which |-> which, env |-> env, pre |-> dyn,
                     out |-> constrain_derivatives(dyn, env, which)]
    /\ UNCHANGED <<dyn, nops, gravs>>

Next ==
    \/ Discard
    \/ Len_
    \/ GetItem
    \/ UnpackState
    \/ PackState
    \/ PackUnpacked
    \/ SetState
    \/ GetNewInstanceWithState
    \/ SetStateOnResult
    \/ AddForce
    \/ AddGravityForce
    \/ ConstrainDerivatives

Spec == Init /\ [][Next]_vars

(* ------------------ the axis frame converter on its own ---------------- *)

\* The 3-vectors converted: each component a scalar or an array.
Components == {Scalar(0), Scalar(3), Ramp(MaxLen, 1)}

Vectors == Components \X Components \X Components

\* convert_axes(x, y, z, from_axes, to_axes) on a vector of the caller's.
ConvertAxes ==
    /\ res = Idle
    /\ \E v \in Vectors, A \in Frames, B \in Frames :
         res' = [op |-> "convert_axes", hops |-> 1, src |-> v, from |-> A, to |-> B,
                 pre |-> dyn, out |-> convert_axes(v[1], v[2], v[3], A, B)]
    /\ UNCHANGED <<dyn, nops, gravs>>

\* convert_axes on the vector just converted, from the frame it is in.
ConvertAgain ==
    /\ res # Idle
    /\ res.op = "convert_axes"
    /\ res.hops = 1
    /\ \E C \in Frames :
         res' = [res EXCEPT !.hops = 2, !.to = C,
                            !.out = convert_axes(res.out[1], res.out[2], res.out[3],
                                                 res.to, C)]
    /\ UNCHANGED <<dyn, nops, gravs>>

NextAxes ==
    \/ Discard
    \/ ConvertAxes
    \/ ConvertAgain

SpecAxes == Init /\ [][NextAxes]_vars

(* ------------------------------ properties ----------------------------- *)

IsOp(name) == res # Idle /\ res.op = name

SameKeys(m, D) == Keys(m) = StateKeys(D.variant)

\* C1: packing what unpack_state returned for a mapping with the keys of
\* state (D.state itself above all) gives that mapping back, same keys in the
\* same order and the same value under each; unpack_state returns the
\* values in the order of the keys.
C1_RoundTrip ==
    /\ IsOp("unpack_state") =>
         /\ Len(res.out.val) = Len(res.src)
         /\ \A i \in DOMAIN res.src : res.out.val[i] = res.src[i][2]
    /\ (IsOp("pack_state") /\ res.chained /\ SameKeys(res.src, dyn)) =>
         res.out = Ok(res.src)

C1_Witness ==
    /\ IsOp("pack_state") /\ res.chained
    /\ res.src = state(dyn)
    /\ res.out.ok
    /\ res.src[1][2].k = "vec" /\ res.src[2][2].k = "scalar"

NamesControl(a, D) ==
    a.t = "map" /\ \E i \in DOMAIN a.m : a.m[i][1] \in Range(ControlKeys(D.variant))

Gives(a, D, i) ==
    \/ a.t = "seq"
    \/ a.t = "map" /\ HasKey(a.m, StateKeys(D.variant)[i])

Given(a, D, i) ==
    IF a.t = "seq" THEN a.s[i] ELSE Get(a.m, StateKeys(D.variant)[i])

\* C3: get_new_instance_with_state returns an instance of the same variant
\* whose constructor arguments other than the state equal the source's
\* attributes and whose state is the source's state overlaid with new_state:
\* a key given takes the new value, a key not given keeps the source's.
C3_StateOverlay ==
    (IsOp("get_new_instance_with_state") /\ res.out.ok) =>
        /\ res.out.inst.variant = dyn.variant
        /\ \A k \in Range(InitArgs(dyn.variant)) \ Range(StateKeys(dyn.variant)) :
             res.out.inst.attrs[k] = dyn.attrs[k]
        /\ Keys(state(res.out.inst)) = StateKeys(dyn.variant)
        /\ \A i \in DOMAIN StateKeys(dyn.variant) :
             state(res.out.inst)[i][2] =
                 IF Gives(res.arg, dyn, i) THEN Given(res.arg, dyn, i)
                 ELSE state(dyn)[i][2]

C3_Witness ==
    /\ IsOp("get_new_instance_with_state") /\ res.out.ok
    /\ res.arg.t = "map"
    /\ Gives(res.arg, dyn, 2) /\ ~Gives(res.arg, dyn, 1)
    /\ state(res.out.inst)[2][2] # state(dyn)[2][2]
    /\ state(res.out.inst)[1][2] = state(dyn)[1][2]
    /\ state(dyn)[1][2].k = "vec"
    /\ dyn.attrs["mass_props"] = MassProps(3)

\* What the call was given: the selected names, the derivatives.
Selected == IF res.which.t = "all" THEN StateKeys(dyn.variant) ELSE res.which.s

IsStateKey(name) == name \in Range(StateKeys(dyn.variant))

\* The selected names up to the first one that is no state variable.
KnownPrefix ==
    LET unknown == {i \in DOMAIN Selected : ~IsStateKey(Selected[i])}
    IN  IF unknown = {} THEN Selected
        ELSE SubSeq(Selected, 1, (CHOOSE i \in unknown : \A j \in unknown : i <= j) - 1)

\* Of these, the names whose derivative is not None.
Enforced ==
    SelectSeq(KnownPrefix, LAMBDA n : Get(res.env.state_derivatives, n) # NoneVal)

\* The constrain_derivative call due for name n.
CallFor(n) ==
    [derivative |-> Get(res.env.state_derivatives, n),
     variable |-> dyn.attrs[n],
     with_respect_to |-> res.env.time,
     method |-> res.env.method,
     name |-> n]

CallsFor(names) == [i \in DOMAIN names |-> CallFor(names[i])]

\* C4 (as claimed): a selection holding a name that is no state variable
\* makes constrain_derivatives fail with a ValueError naming that name.
C4_UnknownNameValueError ==
    (IsOp("constrain_derivatives") /\ res.env.fault = NoFault
        /\ KnownPrefix # Selected) =>
        /\ ~res.out.ok
        /\ res.out.err.class = "ValueError"
        /\ res.out.err.names = Selected[Len(KnownPrefix) + 1]

\* C5: a call that returns has bound exactly one constraint for each
\* selected state variable whose derivative is not None, in the order of
\* the selection, with that variable's state value, its derivative, the time
\* vector and the method given; none for a variable whose derivative is
\* None, which raises nothing; "all" selects every key of state.
C5_OneCallPerEnforced ==
    IsOp("constrain_derivatives") =>
        /\ res.out.ok => /\ res.out.bound = CallsFor(Enforced)
                         /\ res.out.issued = Len(Enforced)
                         /\ KnownPrefix = Selected
        /\ (KnownPrefix = Selected /\ res.env.fault.at \notin 1..Len(Enforced)) => res.out.ok

C5_Witness ==
    /\ IsOp("constrain_derivatives") /\ res.out.ok
    /\ res.which.t = "list"
    /\ Len(Selected) = 2 /\ Selected[1] # Selected[2]
    /\ Get(res.env.state_derivatives, Selected[1]) = NoneVal
    /\ Len(res.out.bound) = 1
    /\ res.out.bound[1].name = Selected[2]
    /\ res.out.bound[1].variable.k = "vec"

C5_WitnessAll ==
    /\ IsOp("constrain_derivatives") /\ res.out.ok
    /\ res.which.t = "all"
    /\ Len(res.out.bound) = 2

\* C6: when the optimization context raises on the call for variable v,
\* constrain_derivatives fails with a ValueError that names v and has the
\* original error as its context; the constraints bound are those of the
\* variables before v, none after it, and the call for v was made once.
C6_AbortOnContextError ==
    (IsOp("constrain_derivatives") /\ res.env.fault.at \in 1..Len(Enforced)) =>
        /\ ~res.out.ok
        /\ res.out.err.class = "ValueError"
        /\ res.out.err.names = Enforced[res.env.fault.at]
        /\ res.out.err.context.class = res.env.fault.class
        /\ res.out.bound = CallsFor(SubSeq(Enforced, 1, res.env.fault.at - 1))
        /\ res.out.issued = res.env.fault.at

C6_Witness ==
    /\ IsOp("constrain_derivatives") /\ ~res.out.ok
    /\ res.env.fault.at = 1
    /\ Len(Enforced) = 2
    /\ res.out.err.class = "ValueError" /\ res.out.err.names = Enforced[1]
    /\ res.out.bound = <<>>

Lengths(D) == {np_length(state(D)[i][2]) : i \in DOMAIN state(D)} \ {1}

\* C7: len(D) is 1 when every state variable has length 1, N when the
\* state variables of another length all have length N, in whatever order
\* they come, and a ValueError when two of them have different lengths.
C7_CommonLength ==
    IsOp("len") =>
        /\ Lengths(dyn) = {} => res.out = Ok(1)
        /\ \A N \in Lengths(dyn) : Lengths(dyn) = {N} => res.out = Ok(N)
        /\ Cardinality(Lengths(dyn)) > 1 => (~res.out.ok /\ res.out.err.class = "ValueError")

C7_Witness ==
    /\ IsOp("len")
    /\ res.out = Ok(MaxLen)
    /\ state(dyn)[1][2].k = "scalar"
    /\ state(dyn)[2][2].k = "vec"

C7_WitnessMismatch ==
    /\ IsOp("len")
    /\ ~res.out.ok
    /\ Cardinality(Lengths(dyn)) = 2

\* The declared attributes of an instance: constructor arguments and
\* control variables.
Declared(D) == Range(InitArgs(D.variant)) \cup Range(ControlKeys(D.variant))

\* Every vector among the declared attributes has the vectorized length N.
Uniform(D, N) == \A k \in Declared(D) : D.attrs[k].k = "vec" => Len(D.attrs[k].e) = N

\* C8 (as claimed): for 0 <= i < N = len(D), D[i] is an instance of length
\* 1 whose every subscriptable attribute is D's i-th element and whose
\* other attributes are D's, unchanged.
C8_IndexedAttributes ==
    (IsOp("getitem") /\ __len__(dyn).ok
        /\ Uniform(dyn, __len__(dyn).val)
        /\ res.index >= 0 /\ res.index < __len__(dyn).val) =>
        /\ res.out.ok
        /\ __len__(res.out.val) = Ok(1)
        /\ \A k \in Declared(dyn) :
             res.out.val.attrs[k] =
                 IF dyn.attrs[k].k = "vec" THEN Scalar(dyn.attrs[k].e[res.index + 1])
                 ELSE dyn.attrs[k]

\* C9 (as claimed): an index at or beyond len(D) raises an IndexError, also
\* when every state variable is scalar and len(D) is 1.
C9_IndexOutOfRange ==
    (IsOp("getitem") /\ __len__(dyn).ok /\ res.index >= __len__(dyn).val) =>
        (~res.out.ok /\ res.out.err.class = "IndexError")

WrongLength(a, D) == a.t = "seq" /\ Len(a.s) # Len(StateKeys(D.variant))

\* C10: pack_state of a sequence whose length is not the number of state
\* keys raises a ValueError; so do _set_state and
\* get_new_instance_with_state given such a sequence, with no state
\* variable of the target changed; pack_state of nothing is state.
C10_PackLengthChecked ==
    /\ (IsOp("pack_state") /\ WrongLength(res.arg, dyn)) =>
         (~res.out.ok /\ res.out.err.class = "ValueError")
    /\ (IsOp("pack_state") /\ res.arg.t = "none") => res.out = Ok(state(dyn))
    /\ (IsOp("_set_state") /\ WrongLength(res.arg, dyn)) =>
         (~res.out.ok /\ res.out.err.class = "ValueError" /\ dyn = res.pre)
    /\ (IsOp("get_new_instance_with_state") /\ WrongLength(res.arg, dyn)) =>
         (~res.out.ok /\ res.out.err.class = "ValueError"
            /\ state(res.out.inst) = state(dyn))

C10_Witness ==
    /\ IsOp("_set_state") /\ res.arg.t = "seq"
    /\ Len(res.arg.s) = 1
    /\ ~res.out.ok
    /\ dyn = res.pre

(* ------------------------------- C11 ----------------------------------- *)

\* The attribute holding the running total of the forces.
Total(D) == D.attrs[ControlKeys(D.variant)[1]]

\* Value a with the number n added to every element.
Plus(a, n) == [a EXCEPT !.e = [i \in DOMAIN a.e |-> a.e[i] + n]]

RECURSIVE SumSeq(_)
SumSeq(s) == IF s = <<>> THEN 0 ELSE Head(s) + SumSeq(Tail(s))

\* The weight the call just made has added along the variant's axis: the
\* 1-D horizontal variant keeps no vertical total.
Weight(D, g) ==
    IF D.variant = "Vertical1D" THEN D.attrs["mass_props"].e[1] * g ELSE 0

\* The last call was a _set_state whose mapping names the control variable.
SetsTotal ==
    /\ IsOp("_set_state")
    /\ res.arg.t = "map"
    /\ HasKey(res.arg.m, ControlKeys(dyn.variant)[1])

Named(D, a) ==
    IF a.t = "none" THEN <<>>
    ELSE IF a.t = "map" THEN a.m
    ELSE [i \in DOMAIN a.s |-> <<StateKeys(D.variant)[i], a.s[i]>>]

\* The argument is one _set_state accepts: anything but a sequence that
\* has not one value per state variable.
Accepted(D, a) == a.t = "seq" => Len(a.s) = Len(StateKeys(D.variant))

C14_SourceUnmodified ==
    /\ (IsOp("get_new_instance_with_state") \/ IsOp("getitem")) => dyn = res.pre
    /\ IsOp("_set_state on result") => dyn = res.pre

\* D holds a force and a vectorized state; the instance it returned was
\* given another state and a force of its own, and differs from D.
C14_Witness ==
    /\ IsOp("_set_state on result")
    /\ Total(dyn) # Scalar(0)
    /\ \E k \in Range(StateKeys(dyn.variant)) :
          /\ dyn.attrs[k].k = "vec"
          /\ res.new.attrs[k] # dyn.attrs[k]
    /\ Total(res.new) # Total(dyn)
    /\ Total(res.new) # Scalar(0)
    /\ res.was.attrs[ControlKeys(dyn.variant)[1]] = Scalar(0)

\* D[i] has raised and D is as it was.
C14_WitnessRaise ==
    /\ IsOp("getitem")
    /\ ~res.out.ok
    /\ dyn = res.pre
    /\ Total(dyn) # Scalar(0)

=============================================================================
